---- MODULE Spec2Model ----
(***************************************************************************)
(* Benchmark position extraction of research/rook-clf-demo:                *)
(*   convert_gdm_correct.py  convert_gdm_puzzles_correct                   *)
(*   convert_lichess.py      convert_lichess_puzzles                       *)
(* One run of one converter is modelled: the rows of the CSV source are    *)
(* read one at a time, each row is replayed on a board of the rules        *)
(* library, evaluation positions are appended to `positions`, the puzzle   *)
(* id is added to `seen_puzzles`, and the run ends by the puzzle cap or by *)
(* the end of the input, after which the benchmark file is written.        *)
(*                                                                         *)
(* The rules library (python-chess) is not part of the repository.  It is  *)
(* modelled by a small board game with the properties of the library that  *)
(* the converters rely on: Move.from_uci raises on malformed text, the     *)
(* test `move in board.legal_moves` is a pure test, Board.push does NOT    *)
(* test legality (it moves whatever stands on the from-square and raises,  *)
(* by its assertion, only when that square is empty), and Board.fen()      *)
(* renders the board, the side to move and the move number.                *)
(***************************************************************************)
EXTENDS Integers, Sequences, FiniteSets, TLC

VARIABLES
    source,        \* which converter runs: "gdm" (convert_gdm_correct.py),
                   \* "lichess" (convert_lichess.py), "lichess_bench"
                   \* (convert_lichess_puzzles of convert_benchmarks.py),
                   \* "gdm_bench" (convert_gdm_puzzles of
                   \* convert_benchmarks.py), "gdm_action"
                   \* (convert_gdm_action.py)
    HAVE_CHESS,    \* convert_lichess.py:4-8, whether `import chess` succeeded
    cap,           \* the puzzle cap of the run (the literal 1000 of the code)
    pc,            \* position of the run: "start", "zstd" (temporary file
                   \* made, zstd not yet run), "loop", "write", "done"
                   \* (returned), "raised" (left by an exception)
    rows,          \* the rows read from the CSV reader so far, in order
    positions,     \* the list `positions`
    emitted_at,    \* for each element of positions: the row number and the
                   \* index into that row's move list its correct_move came from
    seen_puzzles,  \* the set `seen_puzzles`
    temp_file,     \* the Lichess converters: the temporary file exists
    printed,       \* number of diagnostic lines printed for failing rows
    returncode,    \* exit status of zstd: <<>> (not run to an exit), <<0>>, <<1>>
    fen_text,      \* the argument `fen` of a call of process_fen_rook_style
    enc_pc,        \* that call: "idle" (no call), "called", "returned", "raised"
    encoded,       \* the string the call returned
    artifact       \* the benchmark file: <<>> (not written) or
                   \* <<benchmark_data>>

vars == <<source, HAVE_CHESS, cap, pc, rows, positions, emitted_at,
          seen_puzzles, temp_file, printed, returncode, fen_text, enc_pc,
          encoded, artifact>>

\* The variables of a call of process_fen_rook_style; the converters do
\* not call it.
encVars == <<fen_text, enc_pc, encoded>>

(***************************************************************************)
(* Bounds of the model.                                                    *)
(***************************************************************************)
MaxLen == 4     \* longest move list of a record in the one-record runs
MaxRows == 3    \* most rows of an input file in the pipeline runs
Cap == 2        \* the puzzle cap, scaled down from 1000

(***************************************************************************)
(* Rules library: boards, move text, FEN text.                             *)
(***************************************************************************)
Squares == 1..3
Sides == {"w", "b"}

\* A move text is a sequence of square numbers, <<from, to>> standing for
\* the UCI text of a move; anything else is text from_uci cannot parse.
BadUci == <<9, 9>>
UciTexts == {<<f, t>> : f \in Squares, t \in Squares} \ {<<s, s>> : s \in Squares}

Other(side) == IF side = "w" THEN "b" ELSE "w"

\* chess.Move.from_uci(mv) returns a move (TRUE) or raises (FALSE).
FromUciOk(mv) ==
    /\ Len(mv) = 2
    /\ mv[1] \in Squares
    /\ mv[2] \in Squares
    /\ mv[1] # mv[2]

\* `move in board.legal_moves` for a parsed move.
Legal(board, mv) ==
    /\ board.sq[mv[1]] = board.turn
    /\ board.sq[mv[2]] # board.turn

\* A push that refuses every move that is not legal.
PushOkLegal(board, mv) ==
    /\ board.sq[mv[1]] = board.turn
    /\ board.sq[mv[2]] # board.turn

\* board.push(move) raises (FALSE) exactly when the from-square is empty.
PushOk(board, mv) == board.sq[mv[1]] # "."

\* board.push(move): no legality test; the from-square is emptied, the
\* to-square receives a piece of the side to move (push sets the moved
\* piece down with the colour of board.turn), the turn passes, the move
\* number grows after Black's move.
Push(board, mv) ==
    [sq |-> [s \in Squares |->
                IF s = mv[1] THEN "."
                ELSE IF s = mv[2] THEN board.turn
                ELSE board.sq[s]],
     turn |-> Other(board.turn),
     fullmove |-> IF board.turn = "b" THEN board.fullmove + 1 ELSE board.fullmove]

\* board.fen(): the squares in order, the side to move, the move number.
Fen(board) ==
    <<board.sq[1], board.sq[2], board.sq[3], board.turn, board.fullmove>>

\* A FEN column that chess.Board cannot parse.
BadFen == <<"?">>

\* chess.Board(fen) returns a board (TRUE) or raises ValueError (FALSE).
BoardOk(fen) ==
    /\ Len(fen) = 5
    /\ \A k \in Squares : fen[k] \in Sides \cup {"."}
    /\ fen[4] \in Sides
    /\ fen[5] \in Nat \ {0}

\* chess.Board(fen)
Board(fen) ==
    [sq |-> [s \in Squares |-> fen[s]], turn |-> fen[4], fullmove |-> fen[5]]

\* game.board() of a PGN without a FEN header: the starting position.
StartBoard ==
    [sq |-> [s \in Squares |-> IF s = 1 THEN "w" ELSE IF s = 3 THEN "b" ELSE "."],
     turn |-> "w",
     fullmove |-> 1]

\* Lines 58-63 of convert_gdm_correct.py: read the game and push its
\* mainline moves.  The PGN column is modelled by the list of its mainline
\* moves; the result is the final board.
RECURSIVE PlayMainline(_, _)
PlayMainline(board, mainline) ==
    IF mainline = <<>> THEN board
    ELSE PlayMainline(Push(board, Head(mainline)), Tail(mainline))

(***************************************************************************)
(* The Rating column and the difficulty buckets.  A column text is a       *)
(* sequence of characters; "sup2" stands for the one character U+00B2      *)
(* (superscript two), which str.isdigit() accepts and int() rejects.       *)
(***************************************************************************)
Digits == {"0", "1", "2", "3", "4", "5", "6", "7", "8", "9"}

DigitValue(c) ==
    CASE c = "0" -> 0 [] c = "1" -> 1 [] c = "2" -> 2 [] c = "3" -> 3
      [] c = "4" -> 4 [] c = "5" -> 5 [] c = "6" -> 6 [] c = "7" -> 7
      [] c = "8" -> 8 [] c = "9" -> 9

\* str.isdigit(): the text is not empty and every character is a digit.
isdigit(text) ==
    /\ text # <<>>
    /\ \A k \in 1..Len(text) : text[k] \in Digits \cup {"sup2"}

\* int(text) of a text that passed isdigit() returns (TRUE) or raises
\* ValueError (FALSE).
IntOk(text) == \A k \in 1..Len(text) : text[k] \in Digits

\* int(text), decimal.
RECURSIVE int(_)
int(text) ==
    IF text = <<>> THEN 0
    ELSE 10 * int(SubSeq(text, 1, Len(text) - 1)) + DigitValue(text[Len(text)])

\* A default rating that falls into the bucket below.
DefaultRatingLow(text) == IF isdigit(text) THEN int(text) ELSE 1499

\* `int(row['Rating']) if row['Rating'].isdigit() else 1500`
\* (convert_gdm_correct.py:51, convert_lichess.py:75).
RatingOf(text) == IF isdigit(text) THEN int(text) ELSE 1500

\* The same expression raises when isdigit() accepts what int() rejects.
RatingRaises(text) == isdigit(text) /\ ~IntOk(text)

\* A bucket function whose first threshold takes 1000 into "beginner".
get_difficulty_inclusive(rating) ==
    IF rating <= 1000 THEN "beginner"
    ELSE IF rating < 1500 THEN "easy"
    ELSE IF rating < 2000 THEN "medium"
    ELSE IF rating < 2500 THEN "hard"
    ELSE "expert"

\* get_difficulty_from_rating of convert_gdm_correct.py:143-154.
get_difficulty_from_rating(rating) ==
    IF rating < 1000 THEN "beginner"
    ELSE IF rating < 1500 THEN "easy"
    ELSE IF rating < 2000 THEN "medium"
    ELSE IF rating < 2500 THEN "hard"
    ELSE "expert"

\* get_difficulty_from_rating of convert_lichess.py:14-25.
get_difficulty_from_rating_lichess(rating) ==
    IF rating < 1000 THEN "beginner"
    ELSE IF rating < 1500 THEN "easy"
    ELSE IF rating < 2000 THEN "medium"
    ELSE IF rating < 2500 THEN "hard"
    ELSE "expert"

\* get_difficulty_from_rating of convert_gdm_action.py:83-94.
get_difficulty_from_rating_action(rating) ==
    IF rating < 1000 THEN "beginner"
    ELSE IF rating < 1500 THEN "easy"
    ELSE IF rating < 2000 THEN "medium"
    ELSE IF rating < 2500 THEN "hard"
    ELSE "expert"

\* get_difficulty_from_rating of convert_benchmarks.py:229-240.
get_difficulty_from_rating_benchmarks(rating) ==
    IF rating < 1000 THEN "beginner"
    ELSE IF rating < 1500 THEN "easy"
    ELSE IF rating < 2000 THEN "medium"
    ELSE IF rating < 2500 THEN "hard"
    ELSE "expert"


(***************************************************************************)
(* process_fen_rook_style (convert_gdm_correct.py:15-36).  A string is a   *)
(* sequence of characters.                                                 *)
(***************************************************************************)
\* The concatenation of a list of strings: "".join(list).
RECURSIVE Join(_)
Join(list) == IF list = <<>> THEN <<>> ELSE Head(list) \o Join(Tail(list))

\* text.split(sep): the fields between the separators, empty ones kept.
RECURSIVE Split(_, _)
Split(text, sep) ==
    IF \A k \in 1..Len(text) : text[k] # sep THEN <<text>>
    ELSE LET at == CHOOSE k \in 1..Len(text) :
                       text[k] = sep /\ \A j \in 1..(k - 1) : text[j] # sep
         IN  <<SubSeq(text, 1, at - 1)>> \o Split(SubSeq(text, at + 1, Len(text)), sep)

\* '.' * n
Dots(n) == [k \in 1..n |-> "."]

\* A substitution that puts one dot for every digit.
RECURSIVE ExpandDigitsOnce(_)
ExpandDigitsOnce(text) ==
    IF text = <<>> THEN <<>>
    ELSE (IF Head(text) \in Digits THEN <<".">> ELSE <<Head(text)>>)
         \o ExpandDigitsOnce(Tail(text))

\* re.sub(r'\d', lambda m: '.' * int(m.group()), position): every digit
\* is replaced by that many dots.
RECURSIVE ExpandDigits(_)
ExpandDigits(text) ==
    IF text = <<>> THEN <<>>
    ELSE (IF Head(text) \in Digits THEN Dots(DigitValue(Head(text)))
          ELSE <<Head(text)>>) \o ExpandDigits(Tail(text))

\* position.replace("/", "")
RemoveSlashes(text) == SelectSeq(text, LAMBDA c : c # "/")

\* text.ljust(width, "."): dots are appended up to the width; a text that
\* is already as long or longer is returned as it is.
ljust(text, width) ==
    IF Len(text) >= width THEN text
    ELSE text \o Dots(width - Len(text))

\* The unpacking of line 17 succeeds: the split has exactly six fields.
SixFields(text) == Len(Split(text, " ")) = 6

\* Lines 17-36.
process_fen_rook_style(text) ==
    LET fields == Split(text, " ")
        position == RemoveSlashes(ExpandDigits(fields[1]))
        turn == fields[2]
        castling == ljust(fields[3], 4)
        en_passant == ljust(fields[4], 2)
        halfmove == ljust(fields[5], 2) \o <<".">>
        fullmove == ljust(fields[6], 3)
    IN  Join(<<position, turn, castling, en_passant, halfmove, fullmove>>)

(***************************************************************************)
(* Evaluation-point selection.                                             *)
(***************************************************************************)
\* A selector that evaluates the even indices instead of the odd ones.
IsEvalIndexEven(idx) == idx % 2 = 0

\* `move_idx % 2 == 1` (convert_gdm_correct.py:78), `idx % 2 == 1`
\* (convert_lichess.py:88): the indices at which the model is to move.
IsEvalIndexGdm(move_idx) == move_idx % 2 = 1
IsEvalIndexLichess(idx) == idx % 2 = 1

\* The dict built at convert_gdm_correct.py:80-94.
GdmPosition(row, board, move_idx) ==
    [fen |-> Fen(board),
     correct_move |-> row.Moves[move_idx + 1],
     metadata |-> [puzzle_id |-> row.PuzzleId,
                   rating |-> RatingOf(row.Rating),
                   puzzle_type |-> "tactical_sequence",
                   difficulty |-> get_difficulty_from_rating(RatingOf(row.Rating)),
                   source |-> "gdm_searchless",
                   solution_sequence |-> row.Moves,
                   move_index_in_sequence |-> move_idx,
                   total_moves_in_sequence |-> Len(row.Moves)]]

\* A dict whose solution sequence ends at the move it expects.
LichessPositionPrefix(row, board, idx) ==
    [fen |-> Fen(board),
     correct_move |-> row.Moves[idx + 1],
     metadata |-> [puzzle_id |-> row.PuzzleId,
                   rating |-> RatingOf(row.Rating),
                   puzzle_type |-> "lichess_puzzle",
                   difficulty |->
                       get_difficulty_from_rating_lichess(RatingOf(row.Rating)),
                   source |-> "lichess",
                   solution_sequence |-> SubSeq(row.Moves, 1, idx + 1),
                   move_index_in_sequence |-> idx,
                   total_moves_in_sequence |-> Len(row.Moves)]]

\* The dict built at convert_lichess.py:92-107.
LichessPosition(row, board, idx) ==
    [fen |-> Fen(board),
     correct_move |-> row.Moves[idx + 1],
     metadata |-> [puzzle_id |-> row.PuzzleId,
                   rating |-> RatingOf(row.Rating),
                   puzzle_type |-> "lichess_puzzle",
                   difficulty |->
                       get_difficulty_from_rating_lichess(RatingOf(row.Rating)),
                   source |-> "lichess",
                   solution_sequence |-> row.Moves,
                   move_index_in_sequence |-> idx,
                   total_moves_in_sequence |-> Len(row.Moves)]]

\* The dict built at convert_lichess.py:124-136 (no python-chess).
FallbackPosition(row) ==
    [fen |-> row.FEN,
     correct_move |-> row.Moves[1],
     metadata |-> [puzzle_id |-> row.PuzzleId,
                   rating |-> RatingOf(row.Rating),
                   puzzle_type |-> "lichess_puzzle",
                   difficulty |->
                       get_difficulty_from_rating_lichess(RatingOf(row.Rating)),
                   source |-> "lichess"]]

\* One emitted position together with the index of the move it expects.
Entry(position, index) == [pos |-> position, at |-> index]

\* The loop of convert_gdm_correct.py:75-109, from index move_idx on.
\*   odd index, text unparsable : `except: continue` (line 101), the move
\*                                is not pushed and the loop goes on;
\*   odd index, move legal      : the position is appended (line 100);
\*   push raises                : `except: break` (line 108).
RECURSIVE GdmLoop(_, _, _, _)
GdmLoop(row, move_idx, current_board, puzzle_positions) ==
    IF move_idx >= Len(row.Moves) THEN puzzle_positions
    ELSE
      LET move_uci == row.Moves[move_idx + 1]
          appended ==
              IF IsEvalIndexGdm(move_idx) /\ FromUciOk(move_uci)
                    /\ Legal(current_board, move_uci)
              THEN Append(puzzle_positions,
                          Entry(GdmPosition(row, current_board, move_idx), move_idx))
              ELSE puzzle_positions
      IN  IF IsEvalIndexGdm(move_idx) /\ ~FromUciOk(move_uci)
          THEN GdmLoop(row, move_idx + 1, current_board, puzzle_positions)
          ELSE IF ~FromUciOk(move_uci) \/ ~PushOk(current_board, move_uci)
          THEN appended
          ELSE GdmLoop(row, move_idx + 1, Push(current_board, move_uci), appended)

\* The loop of convert_lichess.py:85-114, from index idx on.
\*   odd index, text unparsable : `except Exception: pass` (line 108), then
\*                                the push raises and the loop breaks;
\*   odd index, move legal      : the position is appended (line 92);
\*   push raises                : `except Exception: break` (line 113).
RECURSIVE LichessLoop(_, _, _, _)
LichessLoop(row, idx, board, puzzle_positions) ==
    IF idx >= Len(row.Moves) THEN puzzle_positions
    ELSE
      LET mv == row.Moves[idx + 1]
          appended ==
              IF IsEvalIndexLichess(idx) /\ FromUciOk(mv) /\ Legal(board, mv)
              THEN Append(puzzle_positions,
                          Entry(LichessPosition(row, board, idx), idx))
              ELSE puzzle_positions
      IN  IF ~FromUciOk(mv) \/ ~PushOk(board, mv)
          THEN appended
          ELSE LichessLoop(row, idx + 1, Push(board, mv), appended)

\* is_plausible_uci (convert_lichess.py:36-45): two squares, no test that
\* they differ and no board.
is_plausible_uci(mv) ==
    /\ Len(mv) = 2
    /\ mv[1] \in Squares
    /\ mv[2] \in Squares

(***************************************************************************)
(* One row of the source.  The result of a row is                          *)
(*   out   : the entries appended to positions for the row,                *)
(*   check : whether control reaches the cap test after the row (a         *)
(*           `continue` skips it),                                         *)
(*   raised: whether the row ended in the handler of the outer try.        *)
(***************************************************************************)
RowResult(entries, reaches_check) ==
    [out |-> entries, check |-> reaches_check, raised |-> FALSE,
     mismatch |-> FALSE]

\* `except Exception as e: ... continue` (gdm 116-118, lichess 139-142):
\* nothing is appended for the row and the cap test is skipped.
RowRaised ==
    [out |-> <<>>, check |-> FALSE, raised |-> TRUE, mismatch |-> FALSE]

\* convert_gdm_correct.py:66-68: the replayed PGN does not end in the FEN
\* column; a line is printed and the row is left by `continue`.
RowMismatch ==
    [out |-> <<>>, check |-> FALSE, raised |-> FALSE, mismatch |-> TRUE]

\* A comparison that takes every base position for the end of the PGN.
FenMatchesAlways(final_fen, base_fen) == TRUE

\* `board.fen() != base_fen` (convert_gdm_correct.py:66), negated.
FenMatches(final_fen, base_fen) == final_fen = base_fen

\* row[c] for every c of columns succeeds (no KeyError).
HasColumns(row, columns) == columns \subseteq DOMAIN row

\* A PGN column in which chess.pgn.read_game finds no game: it returns
\* None and game.board() raises AttributeError.
NoGame == <<BadUci>>

\* convert_gdm_correct.py:48-118, the body of the row loop.
GdmRow(row) ==
    IF ~HasColumns(row, {"PuzzleId", "Rating", "PGN", "FEN", "Moves"})
    THEN RowRaised                                    \* lines 50-55: KeyError
    ELSE IF RatingRaises(row.Rating)
    THEN RowRaised                                    \* line 51: ValueError
    ELSE IF row.PGN = NoGame
    THEN RowRaised                                    \* line 59: AttributeError
    ELSE IF ~FenMatches(Fen(PlayMainline(StartBoard, row.PGN)), row.FEN)
    THEN RowMismatch                                  \* lines 66-68: continue
    ELSE IF ~BoardOk(row.FEN)
    THEN RowRaised                                    \* line 72: ValueError
    ELSE RowResult(GdmLoop(row, 0, Board(row.FEN), <<>>), TRUE)

\* convert_lichess.py:68-142, the body of the row loop.
LichessRow(have_chess, row) ==
    IF ~HasColumns(row, {"FEN", "Moves"})
    THEN RowRaised                                    \* lines 70-71: KeyError
    ELSE IF row.Moves = <<>>
    THEN RowResult(<<>>, FALSE)                       \* lines 72-73: continue
    ELSE IF ~HasColumns(row, {"Rating", "PuzzleId"})
    THEN RowRaised                                    \* lines 75, 78: KeyError
    ELSE IF RatingRaises(row.Rating)
    THEN RowRaised                                    \* line 75: ValueError
    ELSE IF have_chess
    THEN IF ~BoardOk(row.FEN)
         THEN RowResult(<<>>, TRUE)                   \* lines 118-119: pass
         ELSE RowResult(LichessLoop(row, 0, Board(row.FEN), <<>>), TRUE)
    ELSE IF is_plausible_uci(row.Moves[1])
         THEN RowResult(<<Entry(FallbackPosition(row), 0)>>, TRUE)
         ELSE RowResult(<<>>, TRUE)

\* convert_benchmarks.py:177-189, the position of the first move.
BenchPosition(row) ==
    [fen |-> row.FEN,
     correct_move |-> row.Moves[1],
     metadata |-> [puzzle_id |-> row.PuzzleId,
                   rating |-> RatingOf(row.Rating),
                   puzzle_type |-> "lichess_puzzle",
                   difficulty |->
                       get_difficulty_from_rating_benchmarks(RatingOf(row.Rating)),
                   source |-> "lichess"]]

\* convert_benchmarks.py:160-197, the body of the row loop: only the first
\* move is looked at.  chess.Board(fen) stands outside the inner try, so
\* its ValueError goes to the outer handler; everything from from_uci to
\* the append stands inside the inner try, whose bare except continues.
BenchRow(row) ==
    IF ~HasColumns(row, {"FEN", "Moves"})
    THEN RowRaised                                    \* lines 162-163
    ELSE IF row.Moves = <<>>
    THEN RowResult(<<>>, TRUE)                        \* line 166
    ELSE IF ~BoardOk(row.FEN)
    THEN RowRaised                                    \* line 170
    ELSE IF ~FromUciOk(row.Moves[1])
    THEN RowResult(<<>>, FALSE)                       \* lines 172, 191-192
    ELSE IF ~Legal(Board(row.FEN), row.Moves[1])
    THEN RowResult(<<>>, TRUE)                        \* line 173
    ELSE IF ~HasColumns(row, {"Rating", "PuzzleId"}) \/ RatingRaises(row.Rating)
    THEN RowResult(<<>>, FALSE)                       \* lines 174-180, 191-192
    ELSE RowResult(<<Entry(BenchPosition(row), 0)>>, TRUE)

\* convert_benchmarks.py:93-104, the position of convert_gdm_puzzles: the
\* rating falls back to 0, the rating given to the bucket function to 1500.
GdmBenchPosition(row) ==
    [fen |-> row.FEN,
     correct_move |-> row.Moves[1],
     metadata |-> [puzzle_id |-> row.PuzzleId,
                   rating |-> IF isdigit(row.Rating) THEN int(row.Rating) ELSE 0,
                   puzzle_type |-> "tactical_puzzle",
                   difficulty |->
                       get_difficulty_from_rating_benchmarks(
                           IF isdigit(row.Rating) THEN int(row.Rating) ELSE 1500),
                   source |-> "gdm_searchless",
                   solution |-> row.Solution]]

\* convert_benchmarks.py:79-111, the row body of convert_gdm_puzzles: the
\* dict is built inside the inner try, whose bare except continues.
GdmBenchRow(row) ==
    IF ~HasColumns(row, {"FEN", "Moves"})
    THEN RowRaised                                    \* lines 81-82
    ELSE IF row.Moves = <<>>
    THEN RowResult(<<>>, TRUE)                        \* line 85
    ELSE IF ~BoardOk(row.FEN)
    THEN RowRaised                                    \* line 89
    ELSE IF ~FromUciOk(row.Moves[1])
    THEN RowResult(<<>>, FALSE)                       \* lines 91, 106-107
    ELSE IF ~Legal(Board(row.FEN), row.Moves[1])
    THEN RowResult(<<>>, TRUE)                        \* line 92
    ELSE IF ~HasColumns(row, {"Rating", "PuzzleId", "Solution"})
            \/ RatingRaises(row.Rating)
    THEN RowResult(<<>>, FALSE)                       \* lines 93-104, 106-107
    ELSE RowResult(<<Entry(GdmBenchPosition(row), 0)>>, TRUE)

\* convert_gdm_action.py:34-46, the position of convert_gdm_action.
ActionPosition(row) ==
    [fen |-> row.FEN,
     correct_move |-> row.Moves[1],
     metadata |-> [puzzle_id |-> row.PuzzleId,
                   rating |-> RatingOf(row.Rating),
                   puzzle_type |-> "action_accuracy",
                   difficulty |->
                       get_difficulty_from_rating_action(RatingOf(row.Rating)),
                   source |-> "gdm_searchless_action",
                   evaluation_type |-> "single_move_accuracy",
                   original_sequence |-> row.Moves]]

\* convert_gdm_action.py:21-56, the row body of convert_gdm_action.
ActionRow(row) ==
    IF ~HasColumns(row, {"PuzzleId", "Rating", "FEN", "Moves"})
    THEN RowRaised                                    \* lines 23-26
    ELSE IF RatingRaises(row.Rating)
    THEN RowRaised                                    \* line 24
    ELSE IF row.Moves = <<>>
    THEN RowResult(<<>>, TRUE)                        \* line 30
    ELSE IF ~BoardOk(row.FEN)
    THEN RowRaised                                    \* line 34
    ELSE IF ~FromUciOk(row.Moves[1])
    THEN RowResult(<<>>, FALSE)                       \* lines 36, 52-53
    ELSE IF ~Legal(Board(row.FEN), row.Moves[1])
    THEN RowResult(<<>>, TRUE)                        \* line 37
    ELSE RowResult(<<Entry(ActionPosition(row), 0)>>, TRUE)

ProcessedRow(src, have_chess, row) ==
    IF src = "gdm" THEN GdmRow(row)
    ELSE IF src = "lichess" THEN LichessRow(have_chess, row)
    ELSE IF src = "lichess_bench" THEN BenchRow(row)
    ELSE IF src = "gdm_bench" THEN GdmBenchRow(row)
    ELSE ActionRow(row)

(***************************************************************************)
(* Inputs: the rows a source file may hold.                                *)
(***************************************************************************)
SeqsUpTo(S, n) == UNION {[1..k -> S] : k \in 0..n}

BaseFen == Fen(StartBoard)
PuzzleIds == {"p1", "p2"}

\* The Rating column of the rows that are not about ratings.
PlainRating == <<"1", "2", "0", "0">>

\* A row as csv.DictReader yields it; the Moves column is held split
\* (row['Moves'].split()).  Only the GDM source has a PGN column.
RatedRow(src, id, fen, moves, pgn, rating) ==
    IF src = "gdm"
    THEN [PuzzleId |-> id, FEN |-> fen, Moves |-> moves, PGN |-> pgn,
          Rating |-> rating]
    ELSE IF src \in {"gdm_bench", "gdm_action"}
    THEN [PuzzleId |-> id, FEN |-> fen, Moves |-> moves, PGN |-> pgn,
          Rating |-> rating, Solution |-> moves]
    ELSE [PuzzleId |-> id, FEN |-> fen, Moves |-> moves, Rating |-> rating]

Row(src, id, fen, moves, pgn) == RatedRow(src, id, fen, moves, pgn, PlainRating)

\* A row of a file whose header has no FEN column.
RowWithoutFen(src, id, moves, pgn) ==
    IF src = "gdm"
    THEN [PuzzleId |-> id, Moves |-> moves, PGN |-> pgn, Rating |-> PlainRating]
    ELSE [PuzzleId |-> id, Moves |-> moves, Rating |-> PlainRating]

\* One-record runs: every move list up to MaxLen over all move texts.
SelRows(src) ==
    {Row(src, "p1", BaseFen, moves, <<>>) :
        moves \in SeqsUpTo(UciTexts \cup {BadUci}, MaxLen)}

\* Pipeline runs: short move lists under both ids, and the rows that fail
\* as a whole (a FEN column chess.Board rejects; a PGN whose final
\* position is not the FEN column).
PipeMoves ==
    {<<>>, <<<<1, 2>>>>, <<<<1, 2>>, <<3, 2>>>>, <<<<3, 2>>, <<1, 2>>>>}
PipeRows(src) ==
    {Row(src, id, BaseFen, moves, <<>>) : id \in PuzzleIds, moves \in PipeMoves}
    \cup {Row(src, "p1", BadFen, <<<<1, 2>>, <<3, 2>>>>, <<>>)}
    \cup {Row(src, "p1", BaseFen, <<<<1, 2>>, <<3, 2>>>>, <<<<1, 2>>>>)}

\* Rating runs: one record that emits, with every rating text.
RatingTexts ==
    {<<>>, <<"a">>, <<"-", "5">>, <<"1", "2", "a">>, <<"sup2">>, <<"1", "sup2">>,
     <<"0">>, <<"9", "9", "9">>, <<"1", "0", "0", "0">>, <<"1", "4", "9", "9">>,
     <<"1", "5", "0", "0">>, <<"1", "9", "9", "9">>, <<"2", "0", "0", "0">>,
     <<"2", "4", "9", "9">>, <<"2", "5", "0", "0">>, <<"3", "0", "0", "0">>}
RatingRows(src) ==
    {RatedRow(src, "p1", BaseFen, <<<<1, 2>>, <<3, 1>>>>, <<>>, rating) :
        rating \in RatingTexts}

(***************************************************************************)
(* The run.                                                                *)
(***************************************************************************)
InitWith(caps) ==
    /\ source \in {"gdm", "lichess"}
    /\ HAVE_CHESS \in (IF source = "gdm" THEN {TRUE} ELSE BOOLEAN)
    /\ cap \in caps
    /\ pc = "start"
    /\ rows = <<>>
    /\ positions = <<>>
    /\ emitted_at = <<>>
    /\ seen_puzzles = {}
    /\ temp_file = FALSE
    /\ printed = 0
    /\ returncode = <<>>
    /\ fen_text = <<>>
    /\ enc_pc = "idle"
    /\ encoded = <<>>
    /\ artifact = <<>>

\* The cap is a positive constant of the code.
Init == InitWith(1..Cap)

\* A cap test that is off by one: the loop breaks one puzzle too late.
CapReachedLate(seen, limit) == Cardinality(seen) > limit

\* `len(seen_puzzles) >= 1000` (convert_gdm_correct.py:121,
\* convert_lichess.py:145).
CapReached(seen, limit) == Cardinality(seen) >= limit

\* A list that grows at the front instead of at the end.
ExtendFront(list, entries) == [k \in 1..Len(entries) |-> entries[k].pos] \o list

\* positions.extend(puzzle_positions) (gdm 113, lichess 116),
\* positions.append(...) (lichess 124).
Extend(list, entries) == list \o [k \in 1..Len(entries) |-> entries[k].pos]

\* An accepted set that takes the id of every row, emitting or not.
AcceptAlways(seen, row, entries) == seen \cup {row.PuzzleId}

\* seen_puzzles.add(puzzle_id), done only when the row emitted something
\* (gdm 112-114, lichess 115-117 and 123-137).
Accept(seen, row, entries) ==
    IF entries # <<>> THEN seen \cup {row.PuzzleId} ELSE seen

\* The converters that decompress their source into a temporary file.
HasTemp(src) == src \in {"lichess", "lichess_bench"}

\* The converters that emit one position per record at most and cap the
\* number of positions: `len(positions) >= 1000` (convert_benchmarks.py:114
\* and 200, convert_gdm_action.py:60).
CountsPositions(src) == src \in {"lichess_bench", "gdm_bench", "gdm_action"}

\* A finally block that leaves the temporary file where it is.
LeaveTryKeeping(src, exists) == exists

\* Leaving the try block of a Lichess converter runs its finally block
\* (convert_lichess.py:152-155, convert_benchmarks.py:207-210), which
\* unlinks the temporary file if it exists; convert_gdm_correct has neither.
LeaveTry(src, exists) == IF HasTemp(src) THEN FALSE ELSE exists

\* The cap test at the end of the row body: on the number of positions or
\* on the number of accepted puzzles.
LoopBreaks(src, seen, list, limit) ==
    IF CountsPositions(src) THEN Len(list) >= limit ELSE CapReached(seen, limit)

\* Where a failed decompression continues: into the row loop.
AfterFailedZstdOn(src) == "loop"

\* Where a failed decompression leaves the run: convert_lichess prints and
\* returns 0 (lines 59-61); convert_benchmarks passes check=True, so
\* subprocess.run raises CalledProcessError (lines 150-153).
AfterFailedZstd(src) == IF src = "lichess" THEN "done" ELSE "raised"

\* A dictionary that holds the positions only.
benchmark_data_bare(src, list) == [positions |-> list]

\* gdm 125-133, lichess 158-165, benchmarks 213-220: the dictionary that is
\* dumped.
benchmark_data(src, list) ==
    IF src = "gdm"
    THEN [name |-> "ChessBench Puzzles (Research Methodology)",
          description |-> "Puzzle sequence evaluation matching the research paper methodology - evaluates model's move prediction at each decision point",
          target_accuracy |-> 49,
          citation |-> "Ruoss et al. 2024. Grandmaster-level chess without search. arXiv:2402.04494",
          source_url |-> "https://github.com/google-deepmind/searchless_chess",
          evaluation_methodology |-> "Evaluates every other move in puzzle sequences (when model is to play)",
          positions |-> list]
    ELSE IF src = "gdm_bench"
    THEN [name |-> "Google DeepMind Searchless Chess Benchmark",
          description |-> "Benchmark positions from 'Grandmaster-level chess without search' paper for evaluating best move accuracy",
          target_accuracy |-> 49,
          citation |-> "Ruoss et al. 2024. Grandmaster-level chess without search. arXiv:2402.04494",
          source_url |-> "https://github.com/google-deepmind/searchless_chess",
          positions |-> list]
    ELSE IF src = "gdm_action"
    THEN [name |-> "GDM Searchless Action Accuracy",
          description |-> "Best move accuracy evaluation from GDM searchless chess data. Tests single-position move prediction without puzzle sequences.",
          target_accuracy |-> 49,
          citation |-> "Ruoss et al. 2024. Grandmaster-level chess without search. arXiv:2402.04494",
          source_url |-> "https://github.com/google-deepmind/searchless_chess",
          evaluation_methodology |-> "Single position -> single best move accuracy (no sequences)",
          evaluation_type |-> "action",
          positions |-> list]
    ELSE [name |-> "Lichess Puzzle Benchmark",
          description |->
              IF src = "lichess"
              THEN "Tactical puzzle positions from Lichess.org, evaluated at model turns"
              ELSE "Tactical puzzle positions from Lichess.org for evaluating chess tactical ability",
          target_accuracy |-> 65,
          citation |-> "Lichess.org puzzle database",
          source_url |-> "https://database.lichess.org/",
          positions |-> list]

\* convert_gdm_correct.py:44-45, convert_benchmarks.py:75-76,
\* convert_gdm_action.py:17-18: open the CSV file.
OpenSource ==
    /\ pc = "start"
    /\ ~HasTemp(source)
    /\ pc' = "loop"
    /\ UNCHANGED <<source, HAVE_CHESS, cap, rows, positions, emitted_at,
                   seen_puzzles, temp_file, returncode, artifact>>
    /\ UNCHANGED <<printed, fen_text, enc_pc, encoded>>

\* convert_lichess.py:49-50, convert_benchmarks.py:145-146:
\* NamedTemporaryFile(delete=False) makes the temporary file, before the
\* try block is entered.
CreateTemp ==
    /\ pc = "start"
    /\ HasTemp(source)
    /\ temp_file' = TRUE
    /\ pc' = "zstd"
    /\ UNCHANGED <<source, HAVE_CHESS, cap, rows, positions, emitted_at,
                   seen_puzzles, returncode, artifact>>
    /\ UNCHANGED <<printed, fen_text, enc_pc, encoded>>

\* convert_lichess.py:54-65, convert_benchmarks.py:150-157: zstd exits 0
\* and the decompressed file is opened.
DecompressOk ==
    /\ pc = "zstd"
    /\ returncode' = <<0>>
    /\ pc' = "loop"
    /\ UNCHANGED <<source, HAVE_CHESS, cap, rows, positions, emitted_at,
                   seen_puzzles, temp_file, artifact>>
    /\ UNCHANGED <<printed, fen_text, enc_pc, encoded>>

\* zstd exits non-zero: the function is left through the finally block.
DecompressFail ==
    /\ pc = "zstd"
    /\ returncode' = <<1>>
    /\ pc' = AfterFailedZstd(source)
    /\ temp_file' = IF AfterFailedZstd(source) = "loop" THEN temp_file
                    ELSE LeaveTry(source, temp_file)
    /\ UNCHANGED <<source, HAVE_CHESS, cap, rows, positions, emitted_at,
                   seen_puzzles, artifact>>
    /\ UNCHANGED <<printed, fen_text, enc_pc, encoded>>

\* There is no zstd program: subprocess.run raises FileNotFoundError, which
\* no handler catches; the finally block runs.
ZstdMissing ==
    /\ pc = "zstd"
    /\ pc' = "raised"
    /\ temp_file' = LeaveTry(source, temp_file)
    /\ UNCHANGED <<source, HAVE_CHESS, cap, rows, positions, emitted_at,
                   seen_puzzles, returncode, artifact>>
    /\ UNCHANGED <<printed, fen_text, enc_pc, encoded>>

\* The number of the first rows whose errors convert_lichess and the
\* Lichess converter of convert_benchmarks report (`if i < 10`), scaled
\* down from 10.
FirstErrors == 1

\* Whether the iteration of row number i (from 0) prints a diagnostic line:
\* convert_gdm_correct prints for every FEN mismatch (line 67) and every
\* exception of the row body (line 117); the Lichess converters print for
\* an exception only `if i < 10` (convert_lichess.py:140-141,
\* convert_benchmarks.py:195-196).
RowPrints(src, result, i) ==
    IF HasTemp(src) THEN result.raised /\ i < FirstErrors
    ELSE result.raised \/ result.mismatch

\* One iteration of the row loop (gdm 47-122, lichess 67-146, benchmarks
\* 159-201): the row is read and processed, and the cap test may break out
\* of the loop; leaving the loop leaves the try block.
ProcessRow(row) ==
    /\ pc = "loop"
    /\ LET result == ProcessedRow(source, HAVE_CHESS, row)
           seen == IF CountsPositions(source) THEN seen_puzzles
                   ELSE Accept(seen_puzzles, row, result.out)
           list == Extend(positions, result.out)
           stop == result.check /\ LoopBreaks(source, seen, list, cap)
       IN  /\ rows' = Append(rows, row)
           /\ positions' = list
           /\ emitted_at' = emitted_at \o
                  [k \in 1..Len(result.out) |->
                      [row |-> Len(rows) + 1, index |-> result.out[k].at]]
           /\ seen_puzzles' = seen
           /\ printed' = IF RowPrints(source, result, Len(rows))
                         THEN printed + 1 ELSE printed
           /\ pc' = IF stop THEN "write" ELSE "loop"
           /\ temp_file' = IF stop THEN LeaveTry(source, temp_file) ELSE temp_file
    /\ UNCHANGED <<source, HAVE_CHESS, cap, returncode, artifact>>
    /\ UNCHANGED encVars

\* next(reader) yields a row: any row of RowSet, while the file has rows.
ReadRow(RowSet, limit) ==
    /\ pc = "loop"
    /\ Len(rows) < limit
    /\ \E row \in RowSet : ProcessRow(row)

\* next(reader) raises (csv.Error, UnicodeDecodeError): the for statement
\* stands outside the per-row try, so the exception leaves the function,
\* through the finally block where there is one.
ReaderRaises ==
    /\ pc = "loop"
    /\ pc' = "raised"
    /\ temp_file' = LeaveTry(source, temp_file)
    /\ UNCHANGED <<source, HAVE_CHESS, cap, rows, positions, emitted_at,
                   seen_puzzles, returncode, artifact>>
    /\ UNCHANGED <<printed, fen_text, enc_pc, encoded>>

\* The reader is exhausted: the loop ends and the try block is left.
EndOfInput ==
    /\ pc = "loop"
    /\ pc' = "write"
    /\ temp_file' = LeaveTry(source, temp_file)
    /\ UNCHANGED <<source, HAVE_CHESS, cap, rows, positions, emitted_at,
                   seen_puzzles, returncode, artifact>>
    /\ UNCHANGED <<printed, fen_text, enc_pc, encoded>>

\* gdm 124-141, lichess 157-173, benchmarks 212-227: the benchmark file is
\* written and the function returns.
WriteBenchmark ==
    /\ pc = "write"
    /\ artifact' = <<benchmark_data(source, positions)>>
    /\ pc' = "done"
    /\ UNCHANGED <<source, HAVE_CHESS, cap, rows, positions, emitted_at,
                   seen_puzzles, temp_file, returncode>>
    /\ UNCHANGED <<printed, fen_text, enc_pc, encoded>>

\* Pipeline runs: files of up to MaxRows rows.
Next ==
    \/ OpenSource
    \/ CreateTemp
    \/ DecompressOk
    \/ DecompressFail
    \/ ReadRow(PipeRows(source), MaxRows)
    \/ EndOfInput
    \/ WriteBenchmark

Spec == Init /\ [][Next]_vars

\* The same runs for every value of the cap from 0 up.
InitCap == InitWith(0..Cap)
SpecCap == InitCap /\ [][Next]_vars

\* One-record runs: a file of at most one row, with any move list.
NextSel ==
    \/ OpenSource
    \/ CreateTemp
    \/ DecompressOk
    \/ DecompressFail
    \/ ReadRow(SelRows(source), 1)
    \/ EndOfInput
    \/ WriteBenchmark

InitSel == InitWith({Cap})
SpecSel == InitSel /\ [][NextSel]_vars

\* Rating runs: a file of at most MaxRatingRows rows that differ in the
\* rating.
MaxRatingRows == 2

NextRating ==
    \/ OpenSource
    \/ CreateTemp
    \/ DecompressOk
    \/ DecompressFail
    \/ ReadRow(RatingRows(source), MaxRatingRows)
    \/ EndOfInput
    \/ WriteBenchmark

InitRating == InitWith({Cap})
SpecRating == InitRating /\ [][NextRating]_vars

\* Rating runs of all five converters.
NextRatingAll ==
    \/ OpenSource
    \/ CreateTemp
    \/ DecompressOk
    \/ DecompressFail
    \/ ReadRow(RatingRows(source), MaxRatingRows)
    \/ EndOfInput
    \/ WriteBenchmark

InitRatingAll ==
    /\ source \in {"gdm", "lichess", "lichess_bench", "gdm_bench", "gdm_action"}
    /\ HAVE_CHESS \in (IF source = "lichess" THEN BOOLEAN ELSE {TRUE})
    /\ cap = Cap
    /\ pc = "start"
    /\ rows = <<>>
    /\ positions = <<>>
    /\ emitted_at = <<>>
    /\ seen_puzzles = {}
    /\ temp_file = FALSE
    /\ printed = 0
    /\ returncode = <<>>
    /\ fen_text = <<>>
    /\ enc_pc = "idle"
    /\ encoded = <<>>
    /\ artifact = <<>>
SpecRatingAll == InitRatingAll /\ [][NextRatingAll]_vars

\* Failure runs: the three converters on files of up to MaxRows rows, some
\* of them faulty, with a decompression tool and a reader that may fail.
ErrRows(src) ==
    {Row(src, id, BaseFen, <<<<1, 2>>, <<3, 1>>>>, <<>>) : id \in PuzzleIds}
    \cup {RowWithoutFen(src, "p1", <<<<1, 2>>, <<3, 1>>>>, <<>>)}
    \cup {Row(src, "p1", BadFen, <<<<1, 2>>, <<3, 1>>>>, <<>>)}
    \cup {Row(src, "p1", BaseFen, <<<<1, 2>>, <<3, 1>>>>, NoGame)}
    \cup {Row(src, "p1", BaseFen, <<<<1, 2>>, <<3, 1>>, BadUci, <<1, 2>>>>, <<>>)}
    \cup {Row(src, "p1", BaseFen, <<<<1, 2>>, <<2, 1>>>>, <<>>)}
    \cup {Row(src, "p1", BaseFen, <<BadUci>>, <<>>)}
    \cup {Row(src, "p2", BaseFen, <<<<1, 2>>, <<3, 1>>>>, <<<<1, 2>>>>)}
    \cup {Row(src, "p2", BaseFen, <<<<1, 2>>, <<3, 1>>, <<2, 3>>, <<1, 2>>>>, <<>>)}

NextErr ==
    \/ OpenSource
    \/ CreateTemp
    \/ DecompressOk
    \/ DecompressFail
    \/ ZstdMissing
    \/ ReadRow(ErrRows(source), MaxRows)
    \/ ReaderRaises
    \/ EndOfInput
    \/ WriteBenchmark

InitErr ==
    /\ source \in {"gdm", "lichess", "lichess_bench"}
    /\ HAVE_CHESS \in (IF source = "lichess" THEN BOOLEAN ELSE {TRUE})
    /\ cap \in 1..Cap
    /\ pc = "start"
    /\ rows = <<>>
    /\ positions = <<>>
    /\ emitted_at = <<>>
    /\ seen_puzzles = {}
    /\ temp_file = FALSE
    /\ printed = 0
    /\ returncode = <<>>
    /\ fen_text = <<>>
    /\ enc_pc = "idle"
    /\ encoded = <<>>
    /\ artifact = <<>>
SpecErr == InitErr /\ [][NextErr]_vars

(***************************************************************************)
(* Properties.                                                             *)
(***************************************************************************)
\* The positions emitted for row number r (indices into positions).
EmittedFor(r) == {k \in 1..Len(positions) : emitted_at[k].row = r}

\* The puzzle ids that occur in a list of positions.
IdsOf(list) == {list[k].metadata.puzzle_id : k \in 1..Len(list)}

\* The board after the first n moves of a move list, pushed one by one.
RECURSIVE After(_, _, _)
After(board, moves, n) ==
    IF n = 0 THEN board
    ELSE Push(After(board, moves, n - 1), moves[n])

\* The first n moves are each parsable and legal where they are played.
RECURSIVE LegalPrefix(_, _, _)
LegalPrefix(board, moves, n) ==
    \/ n = 0
    \/ /\ LegalPrefix(board, moves, n - 1)
       /\ FromUciOk(moves[n])
       /\ Legal(After(board, moves, n - 1), moves[n])

\* Input record r yields a puzzle record: its FEN column is a position,
\* and for the GDM source its PGN ends in that position.
Normalized(r) ==
    /\ BoardOk(rows[r].FEN)
    /\ source = "gdm" => Fen(PlayMainline(StartBoard, rows[r].PGN)) = rows[r].FEN

\* C1: a record with L solution moves contributes at most ceil(L/2)
\* positions, and every position is emitted for an odd zero-based move
\* index, on every code path.
C1_OddIndicesOnly ==
    \A r \in 1..Len(rows) :
        /\ 2 * Cardinality(EmittedFor(r)) <= Len(rows[r].Moves) + 1
        /\ \A k \in EmittedFor(r) : emitted_at[k].index % 2 = 1

\* C2: the expected move of every emitted position is legal in the
\* position's board state.
C2_ExpectedMoveLegal ==
    \A k \in 1..Len(positions) :
        /\ BoardOk(positions[k].fen)
        /\ FromUciOk(positions[k].correct_move)
        /\ Legal(Board(positions[k].fen), positions[k].correct_move)

C4_StopsAtCap ==
    [][Cardinality(seen_puzzles) = cap =>
          /\ rows' = rows
          /\ positions' = positions
          /\ seen_puzzles' = seen_puzzles
          /\ pc \in {"write", "done"}]_vars

\* The run ended by the cap while the file could still have held rows.
C4_Witness ==
    /\ HAVE_CHESS
    /\ Cardinality(seen_puzzles) = cap
    /\ pc = "done"
    /\ Len(rows) < MaxRows
    /\ artifact = <<benchmark_data(source, positions)>>

\* C5: in the step that processes a row, the row's id is added to the
\* accepted set if and only if the row emitted a position; a row that
\* emits nothing leaves positions and the accepted set unchanged and the
\* loop goes on.
C5_AcceptedIffEmitted ==
    [][Len(rows') = Len(rows) + 1 =>
          LET row == rows'[Len(rows')]
          IN  /\ Len(positions') > Len(positions) =>
                    seen_puzzles' = seen_puzzles \cup {row.PuzzleId}
              /\ Len(positions') = Len(positions) =>
                    /\ positions' = positions
                    /\ seen_puzzles' = seen_puzzles
                    /\ Cardinality(seen_puzzles') < cap
                    /\ pc' = "loop"]_vars

\* A record with no solution moves was read first, nothing was accepted
\* for it, and a later record was processed and emitted.
C5_Witness ==
    /\ HAVE_CHESS
    /\ Len(rows) >= 2
    /\ rows[1].Moves = <<>>
    /\ EmittedFor(1) = {}
    /\ EmittedFor(2) # {}
    /\ seen_puzzles = {rows[2].PuzzleId}

\* C6: records that carry the same puzzle id do not both contribute: two
\* emitted positions of one puzzle id come from the same record, and no
\* (puzzle id, move index) pair occurs twice.
C6_Deduplicated ==
    \A j, k \in 1..Len(positions) :
        (j # k /\ positions[j].metadata.puzzle_id = positions[k].metadata.puzzle_id)
            => /\ emitted_at[j].row = emitted_at[k].row
               /\ emitted_at[j].index # emitted_at[k].index

\* The positions input record r contributes, computed from the record.
Contribution(r) == ProcessedRow(source, HAVE_CHESS, rows[r]).out

RECURSIVE ContributionsUpTo(_)
ContributionsUpTo(n) ==
    IF n = 0 THEN <<>>
    ELSE ContributionsUpTo(n - 1)
            \o [k \in 1..Len(Contribution(n)) |-> Contribution(n)[k].pos]

\* The ids of the first n input records that contribute a position.
QualifyingIds(n) ==
    {rows[r].PuzzleId : r \in {q \in 1..n : Contribution(q) # <<>>}}

\* C7: the emitted positions are the positions of the input records read,
\* in input order; every record read before the last one left the number
\* of qualifying ids below the cap, and when the records read reach the
\* cap the loop has ended.
C7_FirstNInSourceOrder ==
    /\ positions = ContributionsUpTo(Len(rows))
    /\ \A k \in 1..Len(emitted_at) :
          k > 1 => emitted_at[k - 1].row <= emitted_at[k].row
    /\ \A n \in 0..(Len(rows) - 1) : Cardinality(QualifyingIds(n)) < cap
    /\ Cardinality(QualifyingIds(Len(rows))) >= cap => pc \in {"write", "done"}

\* Two records of different ids contributed in input order, the second
\* one reached the cap, and the file could still have held rows.
C7_Witness ==
    /\ HAVE_CHESS
    /\ pc = "done"
    /\ Len(rows) = 2
    /\ Len(rows) < MaxRows
    /\ EmittedFor(1) # {}
    /\ EmittedFor(2) # {}
    /\ rows[1].PuzzleId # rows[2].PuzzleId
    /\ Cardinality(seen_puzzles) = cap

\* C8: with the rules library, a record whose moves are all parsable and
\* each legal where it is played contributes exactly one position for
\* every odd index and nothing else: floor(L/2) positions, the one for
\* index i expecting move i.
C8_AllLegalRecord ==
    \A r \in 1..Len(rows) :
        (/\ HAVE_CHESS
         /\ Normalized(r)
         /\ LegalPrefix(Board(rows[r].FEN), rows[r].Moves, Len(rows[r].Moves)))
        => /\ Cardinality(EmittedFor(r)) = Len(rows[r].Moves) \div 2
           /\ \A i \in 0..(Len(rows[r].Moves) - 1) :
                 i % 2 = 1 =>
                    \E k \in EmittedFor(r) :
                        /\ emitted_at[k].index = i
                        /\ positions[k].correct_move = rows[r].Moves[i + 1]
                        /\ positions[k].metadata.move_index_in_sequence = i

\* A record of four moves, all legal, contributed its positions for the
\* indices 1 and 3.
C8_Witness ==
    /\ HAVE_CHESS
    /\ Len(rows) = 1
    /\ Len(rows[1].Moves) = 4
    /\ LegalPrefix(Board(rows[1].FEN), rows[1].Moves, 4)
    /\ Len(positions) = 2
    /\ emitted_at[1].index = 1
    /\ emitted_at[2].index = 3

\* C9: the board state of every emitted position is reached from the
\* record's base position by a prefix of its solution moves in which every
\* move is legal where it is played.
C9_BehindLegalPrefix ==
    \A r \in 1..Len(rows) :
        \A k \in EmittedFor(r) :
            /\ BoardOk(rows[r].FEN)
            /\ \E n \in 0..Len(rows[r].Moves) :
                  /\ LegalPrefix(Board(rows[r].FEN), rows[r].Moves, n)
                  /\ Fen(After(Board(rows[r].FEN), rows[r].Moves, n)) = positions[k].fen

\* The (move index, position, expected move) triples of a selector result,
\* and those the run emitted for input record r.
Triples(entries) ==
    {<<entries[k].at, entries[k].pos.fen, entries[k].pos.correct_move>> :
        k \in 1..Len(entries)}
EmittedTriples(r) ==
    {<<emitted_at[k].index, positions[k].fen, positions[k].correct_move>> :
        k \in EmittedFor(r)}

\* C10: on the same base position and move list the selector of the GDM
\* converter and the selector of the Lichess converter emit the same
\* (move index, position, expected move) triples: what the running
\* converter emitted for a record is what either loop yields for it.
C10_SameSelection ==
    \A r \in 1..Len(rows) :
        (HAVE_CHESS /\ Normalized(r) /\ rows[r].Moves # <<>>) =>
            /\ EmittedTriples(r)
                  = Triples(GdmLoop(rows[r], 0, Board(rows[r].FEN), <<>>))
            /\ EmittedTriples(r)
                  = Triples(LichessLoop(rows[r], 0, Board(rows[r].FEN), <<>>))


\* Encoder calls: position notations joined from these fields.
StartPlacement ==
    <<"r", "n", "b", "q", "k", "b", "n", "r", "/", "p", "p", "p", "p", "p",
      "p", "p", "p", "/", "8", "/", "8", "/", "8", "/", "8", "/", "P", "P",
      "P", "P", "P", "P", "P", "P", "/", "R", "N", "B", "Q", "K", "B", "N",
      "R">>
KingsPlacement ==
    <<"8", "/", "8", "/", "8", "/", "8", "/", "8", "/", "8", "/", "8", "/",
      "K", "1", "k", "5">>
CastlePlacement ==
    <<"r", "3", "k", "2", "r", "/", "8", "/", "8", "/", "8", "/", "4", "P",
      "p", "2", "/", "8", "/", "8", "/", "R", "3", "K", "2", "R">>
Placements == {StartPlacement, KingsPlacement, CastlePlacement}
Turns == {<<"w">>, <<"b">>}
Castlings == {<<"-">>, <<"K", "q">>, <<"K", "Q", "k", "q">>}
EnPassants == {<<"-">>, <<"e", "3">>}
Halfmoves == {<<"0">>, <<"7">>, <<"4", "2">>, <<"9", "9">>, <<"1", "0", "0">>}
Fullmoves ==
    {<<"1">>, <<"6", "0">>, <<"1", "2", "0">>, <<"9", "9", "9">>,
     <<"1", "0", "0", "0">>}

\* " ".join(fields)
RECURSIVE JoinSpaced(_)
JoinSpaced(fields) ==
    IF Len(fields) = 1 THEN fields[1]
    ELSE Head(fields) \o <<" ">> \o JoinSpaced(Tail(fields))

\* The six-field notations, and one text of five fields.
FenTexts ==
    {JoinSpaced(<<p, t, c, e, h, f>>) :
        p \in Placements, t \in Turns, c \in Castlings, e \in EnPassants,
        h \in Halfmoves, f \in Fullmoves}
    \cup {JoinSpaced(<<KingsPlacement, <<"w">>, <<"-">>, <<"-">>, <<"0">>>>)}

\* process_fen_rook_style is called with a text.
InitFen ==
    /\ source = "gdm"
    /\ HAVE_CHESS = TRUE
    /\ cap = Cap
    /\ pc = "start"
    /\ rows = <<>>
    /\ positions = <<>>
    /\ emitted_at = <<>>
    /\ seen_puzzles = {}
    /\ temp_file = FALSE
    /\ printed = 0
    /\ returncode = <<>>
    /\ artifact = <<>>
    /\ fen_text \in FenTexts
    /\ enc_pc = "called"
    /\ encoded = <<>>

\* Lines 17-36: the call returns the encoded string.
EncodeReturns ==
    /\ enc_pc = "called"
    /\ SixFields(fen_text)
    /\ encoded' = process_fen_rook_style(fen_text)
    /\ enc_pc' = "returned"
    /\ UNCHANGED <<source, HAVE_CHESS, cap, pc, rows, positions, emitted_at,
                   seen_puzzles, temp_file, printed, returncode, artifact,
                   fen_text>>

\* Line 17: the unpacking raises ValueError.
EncodeRaises ==
    /\ enc_pc = "called"
    /\ ~SixFields(fen_text)
    /\ enc_pc' = "raised"
    /\ UNCHANGED <<source, HAVE_CHESS, cap, pc, rows, positions, emitted_at,
                   seen_puzzles, temp_file, printed, returncode, artifact,
                   fen_text, encoded>>

NextFen == EncodeReturns \/ EncodeRaises

SpecFen == InitFen /\ [][NextFen]_vars

(***************************************************************************)
(* Ratings and difficulty.                                                 *)
(***************************************************************************)
\* The bucket of a rating, by its interval.
Bucket(rating) ==
    CASE rating < 1000 -> "beginner"
      [] 1000 <= rating /\ rating < 1500 -> "easy"
      [] 1500 <= rating /\ rating < 2000 -> "medium"
      [] 2000 <= rating /\ rating < 2500 -> "hard"
      [] rating >= 2500 -> "expert"

\* The three copies of get_difficulty_from_rating give the same bucket.
CopiesAgree(rating) ==
    /\ get_difficulty_from_rating(rating) = get_difficulty_from_rating_lichess(rating)
    /\ get_difficulty_from_rating(rating) = get_difficulty_from_rating_benchmarks(rating)

\* The rating text of input record r is a plain decimal number.
NumericRating(r) ==
    /\ "Rating" \in DOMAIN rows[r]
    /\ rows[r].Rating # <<>>
    /\ \A k \in 1..Len(rows[r].Rating) : rows[r].Rating[k] \in Digits

\* C11: the difficulty of every emitted position is the bucket of its
\* rating (below 1000 beginner, 1000 to 1499 easy, 1500 to 1999 medium,
\* 2000 to 2499 hard, 2500 and up expert), and the three copies of
\* get_difficulty_from_rating return the same bucket for that rating.
C11_Buckets ==
    \A k \in 1..Len(positions) :
        LET m == positions[k].metadata
        IN  /\ m.difficulty = Bucket(m.rating)
            /\ CopiesAgree(m.rating)
            /\ get_difficulty_from_rating(m.rating) = Bucket(m.rating)

\* A run that emitted positions at both sides of a threshold: one rated 999
\* and one rated 1000.
C11_Witness ==
    /\ \E k \in 1..Len(positions) :
           /\ positions[k].metadata.rating = 999
           /\ positions[k].metadata.difficulty = "beginner"
    /\ \E k \in 1..Len(positions) :
           /\ positions[k].metadata.rating = 1000
           /\ positions[k].metadata.difficulty = "easy"

\* C12 as stated: every position emitted for a record whose rating is empty
\* or not a number carries the rating 1500 and the difficulty "easy".
C12_DefaultEasy ==
    \A k \in 1..Len(positions) :
        ~NumericRating(emitted_at[k].row) =>
            /\ positions[k].metadata.rating = 1500
            /\ positions[k].metadata.difficulty = "easy"

\* C12, amended: every position emitted for a record whose rating is empty
\* or not a number carries the rating 1500 and the difficulty "medium", the
\* bucket of 1500.
C12_DefaultMedium ==
    \A k \in 1..Len(positions) :
        ~NumericRating(emitted_at[k].row) =>
            /\ positions[k].metadata.rating = 1500
            /\ positions[k].metadata.difficulty = "medium"

\* A record with an empty rating and a record with a rating that has a
\* letter, each with a position emitted.
C12_Witness ==
    /\ HAVE_CHESS
    /\ \E k \in 1..Len(positions) :
           /\ rows[emitted_at[k].row].Rating = <<>>
           /\ positions[k].metadata.rating = 1500
    /\ \E k \in 1..Len(positions) :
           /\ rows[emitted_at[k].row].Rating = <<"1", "2", "a">>
           /\ positions[k].metadata.rating = 1500


(***************************************************************************)
(* The fixed-width encoding.                                               *)
(***************************************************************************)
\* The widths of the six segments of the encoded string.
Widths == <<64, 1, 4, 2, 3, 3>>

\* Where segment n starts.
RECURSIVE Offset(_)
Offset(n) == IF n = 1 THEN 1 ELSE Offset(n - 1) + Widths[n - 1]

\* Segment n of a string, cut at the fixed widths (shorter at the end of a
\* string that is too short).
Segment(text, n) ==
    SubSeq(text, Offset(n),
           IF Offset(n) + Widths[n] - 1 <= Len(text)
           THEN Offset(n) + Widths[n] - 1 ELSE Len(text))

\* A segment without its filler characters.
StripFiller(text) == SelectSeq(text, LAMBDA c : c # ".")

\* The character of a digit value.
DigitChar(n) == CHOOSE c \in Digits : DigitValue(c) = n

\* One rank of eight squares in position notation: every run of empty
\* squares is written as its length.
RECURSIVE RankText(_, _)
RankText(squares, empty) ==
    IF squares = <<>>
    THEN (IF empty = 0 THEN <<>> ELSE <<DigitChar(empty)>>)
    ELSE IF Head(squares) = "."
    THEN RankText(Tail(squares), empty + 1)
    ELSE (IF empty = 0 THEN <<>> ELSE <<DigitChar(empty)>>)
         \o <<Head(squares)>> \o RankText(Tail(squares), 0)

\* 64 squares regrouped into eight ranks separated by "/".
RECURSIVE Regroup(_)
Regroup(squares) ==
    IF Len(squares) <= 8 THEN RankText(squares, 0)
    ELSE RankText(SubSeq(squares, 1, 8), 0) \o <<"/">>
         \o Regroup(SubSeq(squares, 9, Len(squares)))

\* The six fields read back from an encoded string.
Decode(text) ==
    <<Regroup(Segment(text, 1)), StripFiller(Segment(text, 2)),
      StripFiller(Segment(text, 3)), StripFiller(Segment(text, 4)),
      StripFiller(Segment(text, 5)), StripFiller(Segment(text, 6))>>

\* The clock and the move number fit their columns: at most two and at most
\* three digits.
FitsColumns(text) ==
    /\ Len(Split(text, " ")[5]) <= 2
    /\ Len(Split(text, " ")[6]) <= 3

\* C13: for every six-field position notation, halfmove clocks of 100 and
\* more and move numbers of any size included, the string that
\* process_fen_rook_style returns has exactly 77 characters.
C13_Exactly77 ==
    enc_pc = "returned" => Len(encoded) = 77

\* C14: decoding the string that process_fen_rook_style returns (cut at the
\* widths 64/1/4/2/3/3, filler stripped, squares regrouped into ranks)
\* gives back the six fields of the notation it was called with.
C14_RoundTrip ==
    enc_pc = "returned" => Decode(encoded) = Split(fen_text, " ")


(***************************************************************************)
(* Exit paths of the Lichess converters.                                   *)
(***************************************************************************)
\* The function has left its try block: it assembles the benchmark, has
\* returned, or was left by an exception.
LeftTry == pc \in {"write", "done", "raised"}

\* C15: on every exit path of the two Lichess converters (loop ended by the
\* end of the input or by the cap, zstd failed or missing, the reader
\* raised) the temporary file is deleted: once the try block is left, and
\* so when the function has returned or raised, the file does not exist.
C15_TempFileDeleted ==
    (source # "gdm" /\ LeftTry) => ~temp_file

\* A Lichess run in which the file existed while rows were read and the
\* reader then raised: the function was left by the exception, after rows
\* had emitted positions.
C15_Witness ==
    /\ source \in {"lichess", "lichess_bench"}
    /\ pc = "raised"
    /\ returncode = <<0>>
    /\ positions # <<>>
    /\ ~temp_file

\* zstd ran and exited non-zero, or could not be started.
DecompressionFailed ==
    /\ source # "gdm"
    /\ \/ returncode = <<1>>
       \/ returncode = <<>> /\ pc = "raised"

\* C16: when decompression failed (zstd exited non-zero or is missing) the
\* run has stopped: no row was read, the writing step is not reached and
\* no benchmark file is written.
C16_NoArtifactAfterFailure ==
    DecompressionFailed =>
        /\ pc \in {"done", "raised"}
        /\ rows = <<>>
        /\ artifact = <<>>

\* convert_lichess returned 0 after zstd exited non-zero.
C16_Witness ==
    /\ source = "lichess"
    /\ returncode = <<1>>
    /\ pc = "done"
    /\ artifact = <<>>


(***************************************************************************)
(* Local failures.                                                         *)
(***************************************************************************)
\* The columns a converter reads from every row.
RequiredColumns(src) ==
    IF src = "gdm" THEN {"PuzzleId", "Rating", "PGN", "FEN", "Moves"}
    ELSE {"PuzzleId", "Rating", "FEN", "Moves"}

\* The record as a whole fails: a required column is missing, its position
\* text is not a position, or its PGN holds no game.
RecordFails(src, row) ==
    \/ ~HasColumns(row, RequiredColumns(src))
    \/ ~BoardOk(row.FEN)
    \/ src = "gdm" /\ row.PGN = NoGame

\* The cap of the running converter is reached in the next state.
CapIsReached ==
    IF source = "lichess_bench" THEN Len(positions') >= cap
    ELSE Cardinality(seen_puzzles') >= cap

\* A row was read and processed in this step.
RowStep == rows' # rows

\* C17: a step that processes a record never aborts the run and never
\* changes the positions emitted before it; the loop goes on to the next
\* record unless the cap is reached; and a record that fails as a whole
\* (missing column, unparsable position text, unparsable PGN) is skipped:
\* it emits nothing, is not accepted, and the loop goes on.
C17_LocalFailureSkipped ==
    [][RowStep =>
          /\ pc' \in {"loop", "write"}
          /\ SubSeq(positions', 1, Len(positions)) = positions
          /\ pc' = "write" => CapIsReached
          /\ RecordFails(source, rows'[Len(rows')]) =>
                 /\ positions' = positions
                 /\ seen_puzzles' = seen_puzzles
                 /\ pc' = "loop"]_vars


(***************************************************************************)
(* The benchmark file of a run without positions.                          *)
(***************************************************************************)
\* The fixed metadata of the benchmark of each converter.
FixedMetadata(src) ==
    IF src = "gdm"
    THEN [name |-> "ChessBench Puzzles (Research Methodology)",
          target_accuracy |-> 49,
          citation |-> "Ruoss et al. 2024. Grandmaster-level chess without search. arXiv:2402.04494",
          source_url |-> "https://github.com/google-deepmind/searchless_chess"]
    ELSE [name |-> "Lichess Puzzle Benchmark",
          target_accuracy |-> 65,
          citation |-> "Lichess.org puzzle database",
          source_url |-> "https://database.lichess.org/"]

\* A benchmark dictionary carries the fixed metadata of its converter and a
\* description.
HasFixedMetadata(src, data) ==
    /\ {"name", "description", "target_accuracy", "citation", "source_url",
        "positions"} \subseteq DOMAIN data
    /\ \A key \in DOMAIN FixedMetadata(src) : data[key] = FixedMetadata(src)[key]
    /\ data.description # ""

\* The row loop has ended normally (by the end of the input or by the cap)
\* and the function has returned.
ReturnedAfterLoop == pc = "done" /\ ~DecompressionFailed

\* C18: a run whose loop ends without any position (empty input, or every
\* record skipped) is not an error: the writing step can be taken, and when
\* the function has returned, one benchmark file is written, with the
\* fixed metadata and an empty positions list.
C18_EmptyRunWrites ==
    /\ (pc = "write" /\ positions = <<>>) => ENABLED WriteBenchmark
    /\ (ReturnedAfterLoop /\ positions = <<>>) =>
           /\ Len(artifact) = 1
           /\ HasFixedMetadata(source, artifact[1])
           /\ artifact[1].positions = <<>>

\* A run that read two records, skipped both, and wrote the benchmark.
C18_Witness ==
    /\ pc = "done"
    /\ Len(rows) = 2
    /\ positions = <<>>
    /\ artifact # <<>>
    /\ artifact[1].positions = <<>>


(***************************************************************************)
(* Determinism.                                                            *)
(***************************************************************************)
\* The outcome of a run as a function of the converter, the presence of the
\* rules library, the cap and the sequence of input records alone: the
\* positions, the accepted ids and whether the loop has stopped after the
\* first n records.
RECURSIVE ReferenceRun(_, _, _, _, _)
ReferenceRun(src, have_chess, limit, input, n) ==
    IF n = 0 THEN [list |-> <<>>, seen |-> {}, stopped |-> FALSE]
    ELSE
      LET before == ReferenceRun(src, have_chess, limit, input, n - 1)
          result == ProcessedRow(src, have_chess, input[n])
          seen == IF result.out = <<>> THEN before.seen
                  ELSE before.seen \cup {input[n].PuzzleId}
      IN  IF before.stopped THEN before
          ELSE [list |-> before.list
                           \o [k \in 1..Len(result.out) |-> result.out[k].pos],
                seen |-> seen,
                stopped |-> result.check /\ Cardinality(seen) >= limit]

CannotApply(board, moves, i) ==
    \/ ~FromUciOk(moves[i + 1])
    \/ ~PushOk(After(board, moves, i), moves[i + 1])

\* The indices at which the replay of a move list has to stop: the first
\* index whose move cannot be parsed or applied.
StopIndices(board, moves) ==
    {i \in 0..(Len(moves) - 1) :
        /\ CannotApply(board, moves, i)
        /\ \A j \in 0..(i - 1) : ~CannotApply(board, moves, j)}

\* C20: when a move of a record cannot be parsed or applied, nothing is
\* emitted for any later index of that record, and what the replay loop
\* emitted before it (the positions of the earlier model-turn indices
\* whose move is legal) is in the output.
C20_StopsAtBadMove ==
    \A r \in 1..Len(rows) :
        Normalized(r) =>
            \A stop \in StopIndices(Board(rows[r].FEN), rows[r].Moves) :
                /\ \A k \in EmittedFor(r) : emitted_at[k].index <= stop
                /\ \A i \in 0..(stop - 1) :
                       (HAVE_CHESS /\ i % 2 = 1
                          /\ Legal(After(Board(rows[r].FEN), rows[r].Moves, i),
                                           rows[r].Moves[i + 1]))
                           => \E k \in EmittedFor(r) : emitted_at[k].index = i


(***************************************************************************)
(* Illegal moves at model turns, and the position that is recorded.        *)
(***************************************************************************)
\* The from-square of a parsed move holds a piece, so the move can be
\* applied to the board.
Occupied(board, mv) == board.sq[mv[1]] # "."

\* The moves at the indices 0..i-1 were each parsed and applied, so the
\* replay has reached index i with the board After(board, moves, i).
RECURSIVE Applied(_, _, _)
Applied(board, moves, i) ==
    \/ i = 0
    \/ /\ Applied(board, moves, i - 1)
       /\ FromUciOk(moves[i])
       /\ Occupied(After(board, moves, i - 1), moves[i])

\* The replay has reached the odd index i of the move list and the move
\* there is parsable but not legal.
IllegalAt(board, moves, i) ==
    /\ i % 2 = 1
    /\ i < Len(moves)
    /\ Applied(board, moves, i)
    /\ FromUciOk(moves[i + 1])
    /\ ~Legal(After(board, moves, i), moves[i + 1])

\* The replay has reached index i and the move there is parsable and legal.
LegalAt(board, moves, i) ==
    /\ i < Len(moves)
    /\ Applied(board, moves, i)
    /\ FromUciOk(moves[i + 1])
    /\ Legal(After(board, moves, i), moves[i + 1])

\* Input record r has an emitted position for move index i.
EmittedAtIndex(r, i) == \E k \in EmittedFor(r) : emitted_at[k].index = i

C22_HaltsAtIllegal ==
    \A r \in 1..Len(rows) :
        (HAVE_CHESS /\ Normalized(r)) =>
            LET board == Board(rows[r].FEN)
                moves == rows[r].Moves
            IN  \A i \in 0..(Len(moves) - 1) :
                    IllegalAt(board, moves, i) =>
                        /\ \A k \in EmittedFor(r) : emitted_at[k].index < i
                        /\ \A j \in 0..(i - 1) :
                               (j % 2 = 1 /\ LegalAt(board, moves, j))
                                   => EmittedAtIndex(r, j)

\* C23: the position recorded for index k is the state before move k: the
\* moves at the indices 0..k-1 were all applied to the base position, one
\* after the other, and the recorded position is the board they give.
C23_PreMoveState ==
    \A k \in 1..Len(positions) :
        LET r == emitted_at[k].row
            i == emitted_at[k].index
        IN  Normalized(r) =>
                /\ Applied(Board(rows[r].FEN), rows[r].Moves, i)
                /\ positions[k].fen = Fen(After(Board(rows[r].FEN), rows[r].Moves, i))

\* C30: every emitted position of a replay loop has an index inside its
\* move list, a total that is the length of its solution sequence, the
\* move of the sequence at its index as correct move, and the full move
\* list of its record as solution sequence.
C30_IndexMetadata ==
    \A k \in 1..Len(positions) :
        "move_index_in_sequence" \in DOMAIN positions[k].metadata =>
            LET m == positions[k].metadata
            IN  /\ 0 <= m.move_index_in_sequence
                /\ m.move_index_in_sequence < m.total_moves_in_sequence
                /\ m.total_moves_in_sequence = Len(m.solution_sequence)
                /\ positions[k].correct_move
                       = m.solution_sequence[m.move_index_in_sequence + 1]
                /\ m.solution_sequence = rows[emitted_at[k].row].Moves
                /\ m.move_index_in_sequence = emitted_at[k].index

\* A record whose replay halted at an unparsable last move after index 1
\* had its position: the solution sequence is still the whole move list.
C30_Witness ==
    /\ HAVE_CHESS
    /\ Len(rows) = 1
    /\ Len(rows[1].Moves) = 3
    /\ ~FromUciOk(rows[1].Moves[3])
    /\ Len(positions) = 1
    /\ positions[1].metadata.total_moves_in_sequence = 3
    /\ positions[1].metadata.move_index_in_sequence = 1


(***************************************************************************)
(* The columns of the encoded string.                                      *)
(***************************************************************************)
\* A field with filler appended on its right up to the width of its column.
RightPadded(field, width) ==
    field \o [k \in 1..(width - Len(field)) |-> "."]

\* C24: in the string that process_fen_rook_style returns, the side to
\* move stands at column 64, castling at 65-68, en passant at 69-70, the
\* halfmove clock at 71-73 and the fullmove number at 74-76 (columns from
\* 0); each of the four keeps its characters in order at the left of its
\* segment with filler on the right only, and the halfmove segment ends
\* with one extra filler character.
C24_FixedColumns ==
    enc_pc = "returned" =>
        LET fields == Split(fen_text, " ")
        IN  /\ Segment(encoded, 2) = fields[2]
            /\ Segment(encoded, 3) = RightPadded(fields[3], 4)
            /\ Segment(encoded, 4) = RightPadded(fields[4], 2)
            /\ Segment(encoded, 5) = RightPadded(fields[5], 2) \o <<".">>
            /\ Segment(encoded, 6) = RightPadded(fields[6], 3)

\* A character of the piece-placement field that is a piece letter.
IsPiece(c) == c \notin Digits /\ c # "/"

\* The number of squares that the first n characters of a piece-placement
\* field stand for: one for a piece letter, d for a digit d, none for "/".
RECURSIVE SquaresBefore(_, _)
SquaresBefore(placement, n) ==
    IF n = 0 THEN 0
    ELSE SquaresBefore(placement, n - 1)
         + (IF placement[n] \in Digits THEN DigitValue(placement[n])
            ELSE IF placement[n] = "/" THEN 0 ELSE 1)

\* C25: the first 64 characters of the string that process_fen_rook_style
\* returns are the 64 squares in the order written: every piece letter of
\* the placement field stands at the square it is written for, every other
\* square holds the filler, and the side to move follows at once.
C25_SixtyFourSquares ==
    enc_pc = "returned" =>
        LET fields == Split(fen_text, " ")
            placement == fields[1]
            pieces == {n \in 1..Len(placement) : IsPiece(placement[n])}
        IN  /\ SquaresBefore(placement, Len(placement)) = 64
            /\ Len(encoded) > 64
            /\ \A n \in pieces :
                   encoded[SquaresBefore(placement, n)] = placement[n]
            /\ \A q \in 1..64 :
                   (\A n \in pieces : SquaresBefore(placement, n) # q)
                       => encoded[q] = "."
            /\ SubSeq(encoded, 65, 64 + Len(fields[2])) = fields[2]

\* The position with rooks and kings on their squares and the two pawns
\* on the fourth rank encoded: pieces at the ends of ranks 8 and 1 and in
\* the middle of rank 4.
C25_Witness ==
    /\ enc_pc = "returned"
    /\ Split(fen_text, " ")[1] = CastlePlacement
    /\ encoded[1] = "r"
    /\ encoded[8] = "r"
    /\ encoded[37] = "P"
    /\ encoded[38] = "p"
    /\ encoded[64] = "R"
    /\ encoded[9] = "."


(***************************************************************************)
(* Diagnostics, the accepted set, and records whose PGN does not end in    *)
(* their base position.                                                    *)
(***************************************************************************)
\* C26: the number of diagnostic lines printed for failing records in one
\* run stays within a constant that does not grow with the number of
\* failing records: only the first few errors are reported.
C26_BoundedDiagnostics ==
    printed <= FirstErrors

\* C27: in the two sequence converters, at every row boundary and at the
\* end, the accepted set is exactly the set of puzzle ids of the emitted
\* positions, and the positions of one record stand together, in strictly
\* increasing move index.
C27_AcceptedAreEmitted ==
    source \in {"gdm", "lichess"} =>
        /\ seen_puzzles = IdsOf(positions)
        /\ \A k \in 1..(Len(positions) - 1) :
               /\ emitted_at[k].row <= emitted_at[k + 1].row
               /\ emitted_at[k].row = emitted_at[k + 1].row
                      => emitted_at[k].index < emitted_at[k + 1].index

\* A record that emitted two positions, followed by a record of another
\* puzzle that emitted one.
C27_Witness ==
    /\ source \in {"gdm", "lichess"}
    /\ Len(positions) = 3
    /\ emitted_at[1].row = emitted_at[2].row
    /\ emitted_at[2].row < emitted_at[3].row
    /\ positions[1].metadata.puzzle_id # positions[3].metadata.puzzle_id
    /\ Cardinality(seen_puzzles) = 2

\* A row of convert_gdm_correct whose columns are read without an error,
\* whose PGN holds a game, and whose game does not end in the position of
\* the FEN column.
PgnEndsElsewhere(row) ==
    /\ HasColumns(row, {"PuzzleId", "Rating", "PGN", "FEN", "Moves"})
    /\ ~RatingRaises(row.Rating)
    /\ row.PGN # NoGame
    /\ Fen(PlayMainline(StartBoard, row.PGN)) # row.FEN

\* C29: in convert_gdm_puzzles_correct a record whose PGN, replayed to its
\* end, gives another position than its FEN column is skipped as a whole:
\* the step that processes it emits nothing, accepts nothing, and leaves
\* the loop running for the next record.
C29_MismatchSkipped ==
    [][(RowStep /\ source = "gdm" /\ PgnEndsElsewhere(rows'[Len(rows')])) =>
          /\ positions' = positions
          /\ seen_puzzles' = seen_puzzles
          /\ pc' = "loop"]_vars

\* A record whose PGN ends after one move while its FEN column is the
\* start position, with solution moves that would emit, was skipped, and
\* the record after it was processed and emitted.
C29_Witness ==
    /\ source = "gdm"
    /\ Len(rows) = 2
    /\ PgnEndsElsewhere(rows[1])
    /\ BoardOk(rows[1].FEN)
    /\ EmittedFor(1) = {}
    /\ EmittedFor(2) # {}
    /\ rows[1].PuzzleId \notin seen_puzzles


(***************************************************************************)
(* Rating and difficulty of one position.                                  *)
(***************************************************************************)
\* get_difficulty_from_rating of the module of the running converter.
DifficultyOf(src, rating) ==
    IF src = "gdm" THEN get_difficulty_from_rating(rating)
    ELSE IF src = "lichess" THEN get_difficulty_from_rating_lichess(rating)
    ELSE IF src = "gdm_action" THEN get_difficulty_from_rating_action(rating)
    ELSE get_difficulty_from_rating_benchmarks(rating)

\* C28: in every emitted position of every converter the difficulty is
\* get_difficulty_from_rating of the rating of that same position, also
\* when the rating column of the record is empty or not a number.
C28_DifficultyOfOwnRating ==
    \A k \in 1..Len(positions) :
        positions[k].metadata.difficulty
            = DifficultyOf(source, positions[k].metadata.rating)

====
